---------------------------- MODULE Spec2Model ----------------------------
(***************************************************************************)
(* A model of pylogue's chart rendering pipeline.                          *)
(*                                                                         *)
(*   - src/src/pylogue/dashboarding.py : render_plotly_chart_py (Python)   *)
(*     and the browser script it emits (normalizePerTraceValue,            *)
(*     normalizeUpdateMenus, setupLinkedInteraction, mobileHeight, render) *)
(*   - src/scripts/agents/ipl/main.py, src/scripts/examples/ai/...:        *)
(*     the entry points that call render_plotly_chart_py                   *)
(*                                                                         *)
(* Three specifications share the variables:                               *)
(*   SpecNorm   the pure function normalizePerTraceValue on bounded inputs *)
(*   SpecRender the server-side render call, stage by stage                *)
(*   SpecClient the browser script: mount, click, resize, menu selection   *)
(***************************************************************************)
EXTENDS Integers, Sequences, FiniteSets, TLC

VARIABLES
    \* ---- SpecNorm: one application of normalizePerTraceValue
    value,          \* the argument `value`
    traceCount,     \* the argument `traceCount`
    normResult,     \* the value returned (Undefined before the call)
    normDone,       \* TRUE once the function has been applied
    normAgain,      \* the value after the passes made so far over the same slot
    normPasses,     \* how many passes have been made over the slot
    \* ---- SpecRender: a render call in flight
    pc,             \* position of the call
    entry,          \* which entry point made the call
    rawQuery,       \* the sql_query the agent passed to the entry point
    sqlQuery,       \* the sql_query handed to render_plotly_chart_py
    hasRunner,      \* sql_query_runner is not None
    hasQuery,       \* sql_query is not None
    depsOk,         \* pandas and plotly imported
    checked,        \* the queries that passed the read-only check in this call
    fetched,        \* the queries the data-fetch capability was invoked with
    scope,          \* names bound in local_scope beyond pd/px/go/make_subplots
    stages,         \* stages run in this call, in order
    result,         \* what the call returned (or raised)
    store,          \* pylogue.embeds: the artifact store, ids in order
    storeCalls,     \* calls of store_html in this call
    storeAtCall,    \* size of the artifact store when this call began
    calls,          \* render calls started so far
    \* ---- SpecClient: the script of the embedded document
    fig,            \* const fig: the chart document the script holds
    explicitHeight, \* const explicitHeight
    defaultHeight,  \* const defaultHeight
    gd,             \* the graph div: what Plotly has drawn
    linked,         \* what setupLinkedInteraction captured, once installed
    innerWidth,     \* window.innerWidth
    frameHeight,    \* height of the iframe that embeds the document
    mounted,        \* the script has run
    event,          \* the event handled last
    plotlyCalls     \* the Plotly calls made while handling it, in order

normVars == <<value, traceCount, normResult, normDone, normAgain, normPasses>>
renderVars == <<pc, entry, rawQuery, sqlQuery, hasRunner, hasQuery, depsOk,
                checked, fetched, scope, stages, result, store, storeCalls,
                storeAtCall, calls>>
clientVars == <<fig, explicitHeight, defaultHeight, gd, linked, innerWidth,
                frameHeight, mounted, event, plotlyCalls>>
vars == <<normVars, renderVars, clientVars>>

--------------------------------------------------------------------------
(* JavaScript / JSON values.  Every value is a record of the same shape so *)
(* that values of different kinds can be compared: k is the kind, a the    *)
(* text of a scalar, e the elements of an array.                           *)

Undefined == [k |-> "undefined", a |-> "", e |-> <<>>]
Null == [k |-> "null", a |-> "", e |-> <<>>]
Num(s) == [k |-> "num", a |-> s, e |-> <<>>]
Str(s) == [k |-> "str", a |-> s, e |-> <<>>]
Arr(es) == [k |-> "array", a |-> "", e |-> es]

\* Array.isArray(v)
IsArray(v) == v.k = "array"

\* v[0]: undefined when v is empty
First(v) == IF Len(v.e) = 0 THEN Undefined ELSE v.e[1]

\* sequences over S of length 0..n
SeqUpTo(S, n) == UNION {[1..m -> S] : m \in 0..n}

--------------------------------------------------------------------------
(* Bounds of SpecNorm *)

MaxInner == 1
MaxOuter == 3
MaxTraceCount == 3
MaxPasses == 3

Scalars == {Null, Num("1"), Str("a")}
InnerArrays == {Arr(s) : s \in SeqUpTo({Null, Num("1")}, MaxInner)}
OuterArrays == {Arr(s) : s \in SeqUpTo({Null, Num("1")} \cup InnerArrays, MaxOuter)}
Values == {Undefined} \cup Scalars \cup OuterArrays

--------------------------------------------------------------------------
(* normalizePerTraceValue(value, traceCount), dashboarding.py:140-151 *)

\* a slip in the `every` test: null entries no longer count as per-trace slots
EveryArrayOnly(v) == \A i \in 1..Len(v.e) : IsArray(v.e[i])

\* value.every((item)=>Array.isArray(item)||item===null)
EveryArrayOrNull(v) == \A i \in 1..Len(v.e) : IsArray(v.e[i]) \/ v.e[i].k = "null"

\* a slip in line 148: the length alone decides
PerTraceShapedByLength(v, n) == Len(v.e) = n

PerTraceShaped(v, n) == Len(v.e) = n /\ EveryArrayOrNull(v)

\* a slip in the single-trace branch: the flat array is returned unwrapped
SingleTraceUnwrapped(v) ==
    IF Len(v.e) = 0 THEN Arr(<<Arr(<<>>)>>) ELSE v

\* a slip in line 145: every element is tested, not the first
SingleTraceAllNested(v) ==
    IF Len(v.e) = 0 THEN Arr(<<Arr(<<>>)>>)
    ELSE IF \A i \in 1..Len(v.e) : IsArray(v.e[i]) THEN v
    ELSE Arr(<<v>>)

SingleTrace(v) ==
    IF Len(v.e) = 0 THEN Arr(<<Arr(<<>>)>>)
    ELSE IF IsArray(First(v)) THEN v
    ELSE Arr(<<v>>)

\* a slip in lines 149-150: whatever is not per-trace shaped is wrapped
normalizeWrapOtherwise(v, n) ==
    IF v.k \in {"undefined", "null"} THEN v
    ELSE IF ~IsArray(v) THEN Arr(<<v>>)
    ELSE IF n = 1 THEN SingleTrace(v)
    ELSE IF PerTraceShaped(v, n) THEN v
    ELSE Arr(<<v>>)

normalizePerTraceValue(v, n) ==
    IF v.k \in {"undefined", "null"} THEN v
    ELSE IF ~IsArray(v) THEN Arr(<<v>>)
    ELSE IF n = 1 THEN SingleTrace(v)
    ELSE IF PerTraceShaped(v, n) THEN v
    ELSE IF ~IsArray(First(v)) THEN Arr(<<v>>)
    ELSE v

InitNorm ==
    /\ value \in Values
    /\ traceCount \in 1..MaxTraceCount
    /\ normResult = Undefined
    /\ normDone = FALSE
    /\ normAgain = Undefined
    /\ normPasses = 0

Normalize ==
    /\ ~normDone
    /\ normResult' = normalizePerTraceValue(value, traceCount)
    /\ normDone' = TRUE
    /\ normAgain' = normalizePerTraceValue(value, traceCount)
    /\ normPasses' = 1
    /\ UNCHANGED <<value, traceCount>>

\* a later pass of normalizeUpdateMenus over the same document: line 171
\* stores the result in dataArgs[key], and the next pass starts from it
Renormalize ==
    /\ normDone
    /\ normPasses < MaxPasses
    /\ normAgain' = normalizePerTraceValue(normAgain, traceCount)
    /\ normPasses' = normPasses + 1
    /\ UNCHANGED <<value, traceCount, normResult, normDone>>

--------------------------------------------------------------------------
(* SQL text.  A query is a sequence of lexical units; each unit stands for *)
(* the characters named, and the string operations of the source act on   *)
(* whole units:                                                            *)
(*   "ws" a blank, "nl" a line feed, "fence" three backticks, "lang_sql"  *)
(*   the four characters s,q,l,LF, "quote" a double quote, "esc_n" a      *)
(*   backslash followed by n, "semi" a semicolon, "SELECT" and "DROP" the *)
(*   upper-case keywords followed by the rest of a statement.             *)

MaxQueryLen == 3

Units == {"ws", "fence", "lang_sql", "quote", "esc_n", "semi", "SELECT", "DROP"}
Queries == SeqUpTo(Units, MaxQueryLen)

Whitespace == {"ws", "nl"}

RECURSIVE LStrip(_, _)
LStrip(q, S) == IF Len(q) > 0 /\ q[1] \in S THEN LStrip(Tail(q), S) ELSE q

RECURSIVE RStrip(_, _)
RStrip(q, S) ==
    IF Len(q) > 0 /\ q[Len(q)] \in S THEN RStrip(SubSeq(q, 1, Len(q) - 1), S) ELSE q

\* str.strip(): both ends
Strip(q, S) == RStrip(LStrip(q, S), S)

\* str.lower(), unit by unit
Lower(u) == IF u = "SELECT" THEN "select" ELSE IF u = "DROP" THEN "drop" ELSE u

StartsWith(q, u) == Len(q) > 0 /\ q[1] = u
EndsWith(q, u) == Len(q) > 0 /\ q[Len(q)] = u

\* lines 62-65: a fenced query loses its backticks and a leading "sql\n"
Unfence(q) ==
    IF StartsWith(q, "fence")
    THEN LET s == Strip(q, {"fence"})
         IN  IF StartsWith(s, "lang_sql") THEN Tail(s) ELSE s
    ELSE q

\* lines 66-69: query[1:-1] when the same quote opens and closes the text
Unquote(q) ==
    IF StartsWith(q, "quote") /\ EndsWith(q, "quote")
    THEN SubSeq(q, 2, Len(q) - 1)
    ELSE q

\* lines 71-73: the two-character escapes become the control characters
Unescape(q) == [i \in 1..Len(q) |-> IF q[i] = "esc_n" THEN "nl" ELSE q[i]]

\* _normalize_sql_query, scripts/agents/ipl/main.py:60-77
normalize_sql_query(q) ==
    RStrip(Strip(Unescape(Unquote(Unfence(Strip(q, Whitespace)))), Whitespace),
           {"semi"})

\* normalized_query.lower().startswith("select"), main.py:164
IsSelect(q) == Len(q) > 0 /\ Lower(q[1]) = "select"

--------------------------------------------------------------------------
(* The render call: entry points and render_plotly_chart_py *)

MaxCalls == 2

NoResult == [kind |-> "none", msg |-> "", id |-> 0]
StringResult(m) == [kind |-> "string", msg |-> m, id |-> 0]
Handle(i) == [kind |-> "handle", msg |-> "Plotly chart rendered.", id |-> i]
\* a BaseException that no handler caught leaves the call
Raised(m) == [kind |-> "raised", msg |-> m, id |-> 0]

NoQuery == <<"None">>

RenderIdle ==
    /\ pc = "idle"
    /\ entry = "none"
    /\ sqlQuery = NoQuery
    /\ hasRunner = FALSE
    /\ hasQuery = FALSE
    /\ storeAtCall = 0
    /\ checked = {}
    /\ fetched = <<>>
    /\ scope = {}
    /\ stages = <<>>
    /\ result = NoResult
    /\ store = <<>>
    /\ storeCalls = 0
    /\ calls = 0

\* the agent's query and the environment (are pandas and plotly installed)
InitRender == RenderIdle /\ rawQuery \in Queries /\ depsOk \in BOOLEAN

\* what every entry point resets: the bookkeeping of one call
BeginCall(e) ==
    /\ pc = "idle"
    /\ calls < MaxCalls
    /\ calls' = calls + 1
    /\ entry' = e
    /\ fetched' = <<>>
    /\ scope' = {}
    /\ stages' = <<>>
    /\ storeCalls' = 0
    /\ storeAtCall' = Len(store)
    /\ UNCHANGED <<rawQuery, depsOk, store>>

\* return from the call
Return(r) == result' = r /\ pc' = "idle"

\* render_plotly_chart, scripts/agents/ipl/main.py:156-176
CallIpl ==
    LET normalized_query == normalize_sql_query(rawQuery) IN
        /\ BeginCall("ipl")
        /\ IF ~IsSelect(normalized_query)
           THEN /\ Return(StringResult("Error: Only SELECT queries are allowed."))
                /\ checked' = {}
                /\ sqlQuery' = NoQuery
                /\ hasRunner' = FALSE
                /\ hasQuery' = FALSE
           ELSE /\ checked' = {normalized_query}
                /\ sqlQuery' = normalized_query
                /\ hasRunner' = TRUE
                /\ hasQuery' = TRUE
                /\ result' = NoResult
                /\ pc' = "deps"

\* render_chart, scripts/examples/ai/pydanticai/basic.py:43-50
CallBasic ==
    \E runner \in BOOLEAN :
        /\ BeginCall("basic")
        /\ checked' = {}
        /\ hasRunner' = runner
        /\ hasQuery' = runner
        /\ sqlQuery' = IF runner THEN rawQuery ELSE NoQuery
        /\ result' = NoResult
        /\ pc' = "deps"

\* render_plotly_chart, scripts/examples/ai/agno/iirm_app.py:11-12
CallAgno ==
    /\ BeginCall("agno")
    /\ checked' = {}
    /\ hasRunner' = FALSE
    /\ hasQuery' = FALSE
    /\ sqlQuery' = NoQuery
    /\ result' = NoResult
    /\ pc' = "deps"

callFrame == <<entry, rawQuery, sqlQuery, hasRunner, hasQuery, depsOk, checked,
               storeAtCall, calls>>

\* dashboarding.py:67-84
CheckDeps ==
    /\ pc = "deps"
    /\ stages' = Append(stages, "deps")
    /\ IF depsOk
       THEN pc' = "fetch" /\ UNCHANGED result
       ELSE Return(StringResult("Missing dependencies."))
    /\ UNCHANGED <<callFrame, fetched, scope, store, storeCalls>>

\* `sql_query_runner is not None and sql_query is not None`, line 85
RunnerAttached == hasRunner /\ hasQuery

\* dashboarding.py:85-88; a failure lands in the handler of lines 303-309
Fetch ==
    /\ pc = "fetch"
    /\ IF RunnerAttached
       THEN /\ stages' = Append(stages, "fetch")
            /\ fetched' = Append(fetched, sqlQuery)
            /\ \E ok \in BOOLEAN :
                IF ok
                THEN scope' = {"df", "data"} /\ pc' = "exec" /\ UNCHANGED result
                ELSE /\ Return(StringResult("Error in render_plotly_chart_py"))
                     /\ UNCHANGED scope
       ELSE /\ pc' = "exec"
            /\ UNCHANGED <<stages, fetched, scope, result>>
    /\ UNCHANGED <<callFrame, store, storeCalls>>

\* How a snippet can end: it binds a figure, ends without one, raises an
\* Exception, or raises a BaseException that is not an Exception
\* (SystemExit, KeyboardInterrupt).
SnippetOutcomes == {"fig", "nofig", "exception", "system_exit"}

\* a handler that runs the snippet again after a failure
AfterSnippetErrorRetry(o) ==
    IF o = "exception"
    THEN pc' = "exec" /\ UNCHANGED result
    ELSE Return(Raised("SystemExit"))

\* `except Exception` at lines 95 and 303: an Exception becomes the
\* diagnostic of line 101; anything else passes both handlers
AfterSnippetError(o) ==
    IF o = "exception"
    THEN Return(StringResult("Error executing Plotly code"))
    ELSE Return(Raised("SystemExit"))

\* dashboarding.py:90-101
Exec ==
    /\ pc = "exec"
    /\ stages' = Append(stages, "exec")
    /\ \E o \in SnippetOutcomes :
        IF o \in {"fig", "nofig"}
        THEN /\ scope' = IF o = "fig" THEN scope \cup {"fig"} ELSE scope
             /\ pc' = "serialize"
             /\ UNCHANGED result
        ELSE AfterSnippetError(o) /\ UNCHANGED scope
    /\ UNCHANGED <<callFrame, fetched, store, storeCalls>>

\* dashboarding.py:103-115
Serialize ==
    /\ pc = "serialize"
    /\ IF "fig" \notin scope
       THEN /\ Return(StringResult("Error: Plotly code must define a fig variable."))
            /\ UNCHANGED stages
       ELSE /\ stages' = Append(stages, "serialize")
            /\ \E ok \in BOOLEAN :
                IF ok
                THEN pc' = "embed" /\ UNCHANGED result
                ELSE Return(StringResult("Error serializing Plotly figure"))
    /\ UNCHANGED <<callFrame, fetched, scope, store, storeCalls>>

\* dashboarding.py:117-300: the layout defaults, json.dumps and the iframe
\* markup; a failure lands in the handler of lines 303-309
Embed ==
    /\ pc = "embed"
    /\ stages' = Append(stages, "embed")
    /\ \E ok \in BOOLEAN :
        IF ok
        THEN pc' = "store" /\ UNCHANGED result
        ELSE Return(StringResult("Error in render_plotly_chart_py"))
    /\ UNCHANGED <<callFrame, fetched, scope, store, storeCalls>>

\* pylogue.embeds.store_html: appends the markup under a fresh id and
\* returns the id, or fails without storing
store_html(ok) ==
    /\ storeCalls' = storeCalls + 1
    /\ store' = IF ok THEN Append(store, Len(store) + 1) ELSE store

\* dashboarding.py:301-302; a failure lands in the handler of lines 303-309
Store ==
    /\ pc = "store"
    /\ stages' = Append(stages, "store")
    /\ \E ok \in BOOLEAN :
        /\ store_html(ok)
        /\ IF ok
           THEN Return(Handle(Len(store) + 1))
           ELSE Return(StringResult("Error in render_plotly_chart_py"))
    /\ UNCHANGED <<callFrame, fetched, scope>>

--------------------------------------------------------------------------
(* The chart document and the browser script, dashboarding.py:129-281 *)

\* an optional integer: a JSON number that is an integer, or anything else
NoInt == [isInt |-> FALSE, n |-> 0]
JsInt(i) == [isInt |-> TRUE, n |-> i]
\* the number i + 0.5 (i >= 1): a number, but not an integer
JsHalf(i) == [isInt |-> FALSE, n |-> i]
\* typeof v === 'number' / isinstance(v, (int, float))
IsNumber(v) == v.isInt \/ v.n # 0

\* const TRACE_KEYS, line 139
TRACE_KEYS == {"x", "y", "text", "customdata"}

\* a mapping over TRACE_KEYS; a key that is absent holds Undefined
NoKeys == [x |-> Undefined, y |-> Undefined, text |-> Undefined, customdata |-> Undefined]
KeysPresent(m) == {key \in TRACE_KEYS : m[key] # Undefined}

\* a trace of fig.data
Trace(xs, ys, axis) ==
    [x |-> xs, y |-> ys, text |-> Undefined, customdata |-> Undefined, yaxis |-> axis]

\* a lookup payload: kind is "object" for a JSON object, else the kind of
\* the JSON value found there ("null", "num"); "undefined" when the key is
\* not in the lookup
NoPayload == [kind |-> "undefined", keys |-> NoKeys, title |-> ""]
NullPayload == [kind |-> "null", keys |-> NoKeys, title |-> ""]
NumPayload == [kind |-> "num", keys |-> NoKeys, title |-> ""]
Payload(ks, t) == [kind |-> "object", keys |-> ks, title |-> t]

\* JavaScript truthiness of a lookup value (a non-zero number is truthy)
Truthy(p) == p.kind \in {"object", "num"}

Flat1020 == Arr(<<Num("10"), Num("20")>>)

PayloadA == Payload([NoKeys EXCEPT !.y = Flat1020], "MI 2020")
PayloadB ==
    Payload([NoKeys EXCEPT !.y = Arr(<<Flat1020>>),
                           !.text = Arr(<<Str("a")>>),
                           !.customdata = Arr(<<Arr(<<Num("7"), Num("8")>>)>>)], "")
PayloadC ==
    Payload([NoKeys EXCEPT !.x = Arr(<<Arr(<<Num("1")>>), Arr(<<Num("2")>>)>>),
                           !.y = Arr(<<Str("lo"), Str("hi")>>),
                           !.text = Null,
                           !.customdata = Arr(<<Num("7")>>)], "MI")
PayloadD == Payload(NoKeys, "MI all")
\* textual y values in the single-nested shape
PayloadE == Payload([NoKeys EXCEPT !.y = Arr(<<Arr(<<Str("lo"), Str("hi")>>)>>)], "")

\* The keys a lookup of the model can hold; a lookup maps each of them to
\* its payload, or to NoPayload when it does not hold the key.
LookupKeys == {"2020||MI", "MI"}
EmptyLookup == [key \in LookupKeys |-> NoPayload]

\* lookup[key]: undefined for a key the lookup does not hold
Get(lookup, key) == IF key \in LookupKeys THEN lookup[key] ELSE NoPayload

\* a button of an update menu; args holds up to two patch mappings, each
\* with its trace keys and the indices i of its keys annotations[i].text
PatchMap(ks, anns) == [isObject |-> TRUE, keys |-> ks, ann |-> anns]
Button(lbl, m, a) == [hasLabel |-> TRUE, label |-> lbl, method |-> m, args |-> a]
Menu(bs, act) == [hasButtons |-> TRUE, buttons |-> bs, active |-> act]

\* layout.meta.pylogue_linked_interaction
NoMeta ==
    [present |-> FALSE, source_trace |-> NoInt, target_trace |-> NoInt,
     season_menu_index |-> NoInt, default_season |-> "", lookup |-> EmptyLookup,
     target_title_annotation_index |-> NoInt]

Layout(h, w, menus, anns, m) ==
    [height |-> h, width |-> w, autosize |-> "unset", updatemenus |-> menus,
     annotations |-> anns, title |-> "", axisType |-> [yaxis |-> "linear", yaxis2 |-> "linear"],
     meta |-> m]

--------------------------------------------------------------------------
(* Bounds and inputs of SpecClient *)

MaxTraces == 2

\* window.innerWidth as the browser reports it: 0 in a frame that is not laid
\* out, a width below 280, one between the clamps, one above 1400
Widths == {0, 200, 701, 1500}

\* the widths a chart is put through: all of them for a chart without a
\* click contract, the two ends for a chart with one
WidthsFor(f) == IF f.layout.meta.present THEN {200, 1500} ELSE Widths
ClickLabels == {"MI", "CSK"}

\* source_trace / target_trace as a snippet can write them
IndexChoices == {NoInt} \cup {JsInt(i) : i \in 0..(MaxTraces - 1)}

CompositeChoices == {NoPayload, NullPayload, NumPayload, PayloadA, PayloadB}
BareChoices == {NoPayload, PayloadC, PayloadD}

LookupOf(comp, bare) == [key \in LookupKeys |-> IF key = "2020||MI" THEN comp ELSE bare]

Lookups == {LookupOf(c, b) : c \in CompositeChoices, b \in BareChoices}

\* the season dropdown: the first button's payload is a flat array, which
\* normalizeUpdateMenus has to wrap; the second carries a fragile key
SeasonMenu ==
    Menu(<<Button("2019", "update",
                  <<PatchMap([NoKeys EXCEPT !.y = Arr(<<Num("1"), Num("2")>>)], {}),
                    PatchMap(NoKeys, {1})>>),
           Button("2020", "Update", <<PatchMap(NoKeys, {0})>>)>>,
         NoInt)

\* a single chart without a dropdown, or two panels under a season dropdown
ShapeChoices ==
    {[menus |-> <<>>, annotations |-> <<>>],
     [menus |-> <<SeasonMenu>>, annotations |-> <<"left", "right">>]}

Traces(n) ==
    [i \in 1..n |-> Trace(Arr(<<Str("MI"), Str("CSK")>>), Arr(<<Num("1"), Num("2")>>),
                          IF i = 2 THEN "y2" ELSE "y")]

Meta(s, t, l) ==
    [present |-> TRUE, source_trace |-> s, target_trace |-> t,
     season_menu_index |-> NoInt, default_season |-> "2020", lookup |-> l,
     target_title_annotation_index |-> NoInt]

\* the contracts a snippet writes: every pair of indices over two lookups,
\* and every lookup under the default source index
MetaChoices ==
    {NoMeta}
    \cup {Meta(s, t, l) : s \in IndexChoices, t \in IndexChoices,
                          l \in {LookupOf(PayloadA, PayloadC), LookupOf(NoPayload, PayloadD)}}
    \cup {Meta(NoInt, t, l) : t \in IndexChoices, l \in Lookups}

\* layout.height as the snippet left it: absent, 300 or 300.5
HeightChoices == {NoInt, JsInt(300), JsHalf(300)}

\* layout.width as the snippet left it
WidthChoices == {NoInt, JsInt(500)}

\* a patch argument that is not a mapping (null)
NullPatch == [isObject |-> FALSE, keys |-> NoKeys, ann |-> {}]

\* the arguments a dropdown button can carry: none, a trace-data patch with
\* a scalar text and a fragile key, the same with a layout patch carrying a
\* fragile key, and a null trace-data patch before such a layout patch
ArgsChoices ==
    {<<>>,
     <<PatchMap([NoKeys EXCEPT !.text = Str("t")], {0})>>,
     <<PatchMap([NoKeys EXCEPT !.text = Str("t")], {0}), PatchMap(NoKeys, {1})>>,
     <<NullPatch, PatchMap(NoKeys, {0, 1})>>}

MethodChoices == {"update", "Update", "relayout", "restyle"}

\* charts under one dropdown of one button, of any method
MenuDocuments ==
    {[data |-> Traces(n),
      layout |-> Layout(NoInt, NoInt, <<Menu(<<Button("b", mth, a)>>, NoInt)>>,
                        <<"left", "right">>, NoMeta)] :
        n \in 1..MaxTraces, mth \in MethodChoices, a \in ArgsChoices}

\* menu.active as Plotly or the snippet left it
ActiveChoices == {NoInt, JsInt(0), JsInt(1), JsInt(2), JsInt(0 - 1)}

\* layout.updatemenus of the charts that exercise the season lookup
SeasonMenusChoices ==
    {<<>>,
     <<[hasButtons |-> FALSE, buttons |-> <<>>, active |-> NoInt]>>,
     <<Menu(<<[Button("", "update", <<>>) EXCEPT !.hasLabel = FALSE],
              Button("2020", "update", <<>>)>>, NoInt)>>}
    \cup {<<[SeasonMenu EXCEPT !.active = a]>> : a \in ActiveChoices}
    \cup {<<Menu(<<Button("other", "relayout", <<>>)>>, NoInt),
             [SeasonMenu EXCEPT !.active = a]>> : a \in {NoInt, JsInt(1)}}

\* season_menu_index as the snippet wrote it
SeasonIndexChoices == {NoInt, JsInt(0), JsInt(1), JsInt(0 - 1)}

\* charts whose contract reads the season from a dropdown
SeasonDocuments ==
    {[data |-> Traces(2),
      layout |-> Layout(NoInt, NoInt, menus, <<"left", "right">>,
                        [Meta(NoInt, NoInt, LookupOf(PayloadA, PayloadC))
                            EXCEPT !.season_menu_index = smi, !.default_season = dflt])] :
        menus \in SeasonMenusChoices, smi \in SeasonIndexChoices, dflt \in {"", "2021"}}

\* layout.annotations of the charts that exercise the title patch
AnnotationsChoices == {<<>>, <<"a">>, <<"left", "right">>, <<"a", "b", "c">>}

\* target_title_annotation_index as the snippet wrote it
TitleIndexChoices == {NoInt, JsInt(0), JsInt(2), JsInt(5), JsInt(0 - 1)}

\* charts whose contract retitles an annotation
TitleDocuments ==
    {[data |-> Traces(2),
      layout |-> Layout(NoInt, NoInt, <<>>, anns,
                        [Meta(NoInt, NoInt, LookupOf(PayloadA, PayloadC))
                            EXCEPT !.target_title_annotation_index = ti])] :
        anns \in AnnotationsChoices, ti \in TitleIndexChoices}

\* charts whose lookup holds textual y values in both shapes
AxisDocuments ==
    {[data |-> Traces(2),
      layout |-> Layout(NoInt, NoInt, sh.menus, sh.annotations,
                        Meta(NoInt, t, LookupOf(PayloadE, PayloadC)))] :
        sh \in ShapeChoices, t \in {NoInt, JsInt(0)}}

\* the documents fig.to_plotly_json() can hand over: charts with a linked
\* interaction, and charts that differ in their size settings
Documents ==
    {[data |-> Traces(n), layout |-> Layout(NoInt, NoInt, sh.menus, sh.annotations, m)] :
        n \in 1..MaxTraces, sh \in ShapeChoices, m \in MetaChoices}
    \cup
    {[data |-> Traces(n), layout |-> Layout(h, w, sh.menus, sh.annotations, NoMeta)] :
        n \in 1..MaxTraces, sh \in ShapeChoices, h \in HeightChoices, w \in WidthChoices}
    \cup MenuDocuments
    \cup SeasonDocuments
    \cup TitleDocuments
    \cup AxisDocuments

--------------------------------------------------------------------------
(* render_plotly_chart_py, lines 117-137 and 293-300: what the server puts *)
(* into the document and into the iframe markup *)

\* isinstance(user_height, (int, float)), line 119
has_explicit_height(doc) == IsNumber(doc.layout.height)

\* int(user_height): the fraction is dropped
ToInt(v) == v.n

\* line 120
default_height(doc) == IF has_explicit_height(doc) THEN ToInt(doc.layout.height) ELSE 420

\* lines 122-126: fig_json as serialized into `const fig`
fig_payload(doc) ==
    IF has_explicit_height(doc) THEN doc
    ELSE [doc EXCEPT !.layout.autosize = "true", !.layout.width = NoInt]

--------------------------------------------------------------------------
(* normalizeUpdateMenus, lines 152-182 *)

\* String(btn.method||'').toLowerCase()
LowerMethod(m) == IF m = "Update" THEN "update" ELSE m

\* stripFragileAnnotationKeys, lines 152-157: every key annotations[i].text
\* is deleted from the mapping
\* a slip in line 155: nothing is deleted
keepAnnotationKeys(patch) == patch

stripFragileAnnotationKeys(patch) ==
    IF patch.isObject THEN [patch EXCEPT !.ann = {}] ELSE patch

\* lines 168-175: the trace-data-patch mapping of one button
normalizeDataArgs(dataArgs, n) ==
    IF dataArgs.isObject
    THEN stripFragileAnnotationKeys(
            [dataArgs EXCEPT !.keys =
                [key \in TRACE_KEYS |-> normalizePerTraceValue(dataArgs.keys[key], n)]])
    ELSE dataArgs

\* lines 165-180: one button
normalizeButton(btn, n) ==
    IF Len(btn.args) = 0 \/ LowerMethod(btn.method) # "update" THEN btn
    ELSE [btn EXCEPT !.args =
            [i \in 1..Len(btn.args) |->
                IF i = 1 THEN normalizeDataArgs(btn.args[1], n)
                ELSE IF i = 2 THEN stripFragileAnnotationKeys(btn.args[2])
                ELSE btn.args[i]]]

\* const traceCount=(fig.data||[]).length||1, line 161
TraceCountOf(f) == IF Len(f.data) = 0 THEN 1 ELSE Len(f.data)

normalizeUpdateMenus(f) ==
    [f EXCEPT !.layout.updatemenus =
        [m \in 1..Len(f.layout.updatemenus) |->
            LET menu == f.layout.updatemenus[m] IN
            IF menu.hasButtons
            THEN [menu EXCEPT !.buttons =
                    [b \in 1..Len(menu.buttons) |->
                        normalizeButton(menu.buttons[b], TraceCountOf(f))]]
            ELSE menu]]

--------------------------------------------------------------------------
(* mobileHeight and render, lines 252-268 *)

Max(a, b) == IF a > b THEN a ELSE b
Min(a, b) == IF a < b THEN a ELSE b

\* a slip in line 255: Math.floor in place of Math.round
FloorSixTenths(w) == (6 * w) \div 10

\* Math.round(w*0.6) for an integer w
RoundSixTenths(w) == (6 * w + 5) \div 10

\* a slip in line 253: the explicit height is not consulted
mobileHeightFromWidth(width) ==
    LET w == Max(280, Min(IF width = 0 THEN 1024 ELSE width, 1400))
    IN  Max(280, Min(560, (6 * w + 5) \div 10))

mobileHeight(width) ==
    IF explicitHeight THEN defaultHeight
    ELSE LET w == Max(280, Min(IF width = 0 THEN 1024 ELSE width, 1400))
         IN  Max(280, Min(560, RoundSixTenths(w)))

\* lines 258-262: fig after the assignments of render()
RenderedFig(f, width) ==
    LET nf == normalizeUpdateMenus(f) IN
    [nf EXCEPT !.layout.autosize = "true",
               !.layout.width = NoInt,
               !.layout.height = JsInt(mobileHeight(width))]

\* a call of the Plotly API, as the handlers make them
Call(op, traces, update, key, val) ==
    [op |-> op, traces |-> traces, update |-> update, key |-> key, val |-> val]
NormalizeCall == Call("normalizeUpdateMenus", <<>>, NoKeys, "", "")
ReactCall == Call("react", <<>>, NoKeys, "", "")
ResizeCall == Call("Plots.resize", <<>>, NoKeys, "", "")
RestyleCall(update, idx) == Call("restyle", <<idx>>, update, "", "")
RelayoutCall(key, val) == Call("relayout", <<>>, NoKeys, key, val)

\* Plotly.react(gd, fig.data, fig.layout): Plotly keeps the arrays and
\* objects it is handed, so gd.data is fig.data and gd.layout is fig.layout
React(f) == [plotted |-> TRUE, data |-> f.data, layout |-> f.layout]

\* a slip in lines 263-266: the frame keeps the height of its markup
renderWithoutFrameSync(width) ==
    LET rendered == RenderedFig(fig, width) IN
    /\ fig' = rendered
    /\ frameHeight' = frameHeight
    /\ gd' = React(rendered)

\* render(), lines 257-268, at window.innerWidth = width
render(width) ==
    LET rendered == RenderedFig(fig, width) IN
    /\ fig' = rendered
    /\ frameHeight' = rendered.layout.height.n
    /\ gd' = React(rendered)

NoEvent == [kind |-> "none", curve |-> 0, label |-> "", season |-> "", payload |-> NoPayload]
Event(k) == [NoEvent EXCEPT !.kind = k]

--------------------------------------------------------------------------
(* setupLinkedInteraction, lines 183-251 *)

NotInstalled ==
    [installed |-> FALSE, sourceTrace |-> 0, targetTrace |-> 0, seasonMenuIndex |-> 0,
     lookup |-> EmptyLookup, defaultSeason |-> "", titleIndex |-> NoInt]

\* Number.isInteger(v) ? v : d
IntegerOr(v, d) == IF v.isInt THEN v.n ELSE d

\* lines 184-190: the constants the click handler closes over
setupLinkedInteraction(f) ==
    LET meta == f.layout.meta IN
    IF ~meta.present THEN NotInstalled
    ELSE [installed |-> TRUE,
          sourceTrace |-> IntegerOr(meta.source_trace, 0),
          targetTrace |-> IntegerOr(meta.target_trace, 1),
          seasonMenuIndex |-> IntegerOr(meta.season_menu_index, 0),
          lookup |-> meta.lookup,
          defaultSeason |-> meta.default_season,
          titleIndex |-> meta.target_title_annotation_index]

\* a variant that keeps a nested series as it is
keepLinkedSeries(v) == v

\* normalizeLinkedSeries, lines 191-196
normalizeLinkedSeries(v) ==
    IF IsArray(v) /\ Len(v.e) = 1 /\ IsArray(v.e[1]) THEN v.e[1] ELSE v

\* a slip in line 202: the first button is taken whatever menu.active says
activeSeasonFirstButton(g, l) ==
    LET menus == g.layout.updatemenus
        i == l.seasonMenuIndex
    IN  IF i < 0 \/ i >= Len(menus) THEN l.defaultSeason
        ELSE LET menu == menus[i + 1]
             IN  IF ~menu.hasButtons THEN l.defaultSeason
                 ELSE IF Len(menu.buttons) = 0 THEN l.defaultSeason
                 ELSE IF ~menu.buttons[1].hasLabel THEN l.defaultSeason
                 ELSE menu.buttons[1].label

\* activeSeason, lines 197-207, read from the graph div g
activeSeason(g, l) ==
    LET menus == g.layout.updatemenus
        i == l.seasonMenuIndex
    IN  IF i < 0 \/ i >= Len(menus) THEN l.defaultSeason
        ELSE LET menu == menus[i + 1]
                 active == IntegerOr(menu.active, 0)
             IN  IF ~menu.hasButtons THEN l.defaultSeason
                 ELSE IF active < 0 \/ active >= Len(menu.buttons) THEN l.defaultSeason
                 ELSE IF ~menu.buttons[active + 1].hasLabel THEN l.defaultSeason
                 ELSE menu.buttons[active + 1].label

\* a lookup that prefers the bare category key
resolveBareFirst(lookup, season, label) ==
    IF Truthy(Get(lookup, label)) THEN Get(lookup, label)
    ELSE Get(lookup, season \o "||" \o label)

\* lookup[combinedKey]||lookup[label], lines 213-214
resolvePayload(lookup, season, label) ==
    IF Truthy(Get(lookup, season \o "||" \o label))
    THEN Get(lookup, season \o "||" \o label)
    ELSE Get(lookup, label)

\* a slip in line 218: a key the payload lacks is patched all the same
buildUpdateEveryKey(payload) ==
    [key \in TRACE_KEYS |->
        IF key = "customdata" THEN Arr(<<payload.keys[key]>>)
        ELSE Arr(<<normalizeLinkedSeries(payload.keys[key])>>)]

\* lines 216-222: the restyle patch built from the payload
buildUpdate(payload) ==
    [key \in TRACE_KEYS |->
        IF payload.keys[key] = Undefined THEN Undefined
        ELSE IF key = "customdata" THEN Arr(<<payload.keys[key]>>)
        ELSE Arr(<<normalizeLinkedSeries(payload.keys[key])>>)]

\* a handler that answers a click on any trace
anyTraceIsSource(curve, l) == TRUE

\* point.curveNumber!==sourceTrace, line 210
isSourceClick(curve, l) == curve = l.sourceTrace

\* lines 227-228: the layout key of the target trace's y axis
yLayoutKey(data, targetTrace) ==
    LET yRef == IF targetTrace >= 0 /\ targetTrace < Len(data)
                THEN data[targetTrace + 1].yaxis ELSE "y"
    IN  IF yRef = "y" THEN "yaxis" ELSE "yaxis2"

\* line 230: Array.isArray(yVals) && yVals.length>0 && typeof yVals[0]==='string'
textualY(payload) ==
    LET yVals == payload.keys.y IN
    IsArray(yVals) /\ Len(yVals.e) > 0 /\ yVals.e[1].k = "str"

\* Plotly.restyle(gd, update, [idx]) on a trace that exists: each key of the
\* patch holds one value per listed trace
restyled(data, update, idx) ==
    [data EXCEPT ![idx + 1] =
        [field \in DOMAIN data[idx + 1] |->
            IF field \in TRACE_KEYS /\ update[field] # Undefined
            THEN update[field].e[1]
            ELSE data[idx + 1][field]]]

\* gd.data holds a trace at index targetTrace
targetExists(g, l) == l.targetTrace >= 0 /\ l.targetTrace < Len(g.data)

\* a slip in line 240: the second annotation only when there are exactly two
titleAnnotationIndexExactlyTwo(l, anns) ==
    IF l.titleIndex.isInt THEN l.titleIndex.n ELSE IF Len(anns) = 2 THEN 1 ELSE 0

\* line 240: the annotation that carries the target's title
titleAnnotationIndex(l, anns) ==
    IF l.titleIndex.isInt THEN l.titleIndex.n ELSE IF Len(anns) > 1 THEN 1 ELSE 0

\* lines 237-249: the title patch, as [layout, calls]
titlePatch(layout, l, title) ==
    LET anns == layout.annotations
        idx == titleAnnotationIndex(l, anns)
    IN  IF Len(anns) > 0 /\ idx >= 0 /\ idx < Len(anns)
        THEN [layout |-> [layout EXCEPT !.annotations[idx + 1] = title],
              calls |-> <<RelayoutCall("annotations[" \o ToString(idx) \o "].text", title)>>]
        ELSE [layout |-> [layout EXCEPT !.title = title],
              calls |-> <<RelayoutCall("title", title)>>]

\* The plotly_click handler, lines 208-250, on the graph div g: the data and
\* layout it leaves and the Plotly calls it makes.  `throws` says whether a
\* restyle of a trace index that does not exist raises (ending the handler)
\* or is dropped by Plotly.
handleClick(g, l, curve, label, throws) ==
    LET season == activeSeason(g, l)
        payload == resolvePayload(l.lookup, season, label)
        update == buildUpdate(payload)
        same == [data |-> g.data, layout |-> g.layout, calls |-> <<>>,
                 season |-> "", payload |-> NoPayload]
    IN  IF ~isSourceClick(curve, l) THEN same
        ELSE IF payload.kind # "object"
             THEN [same EXCEPT !.season = season, !.payload = payload]
        ELSE IF KeysPresent(update) = {}
             THEN [same EXCEPT !.season = season, !.payload = payload]
        ELSE LET axisKey == yLayoutKey(g.data, l.targetTrace)
                 layout1 == IF textualY(payload)
                            THEN [g.layout EXCEPT !.axisType[axisKey] = "category"]
                            ELSE g.layout
                 calls1 == IF textualY(payload)
                           THEN <<RelayoutCall(axisKey \o ".type", "category")>>
                           ELSE <<>>
                 exists == targetExists(g, l)
                 data2 == IF exists THEN restyled(g.data, update, l.targetTrace)
                          ELSE g.data
                 calls2 == Append(calls1, RestyleCall(update, l.targetTrace))
                 titled == titlePatch(layout1, l, payload.title)
             IN  IF (~exists /\ throws) \/ payload.title = ""
                 THEN [data |-> data2, layout |-> layout1, calls |-> calls2,
                       season |-> season, payload |-> payload]
                 ELSE [data |-> data2, layout |-> titled.layout,
                       calls |-> calls2 \o titled.calls,
                       season |-> season, payload |-> payload]

--------------------------------------------------------------------------
(* The script and its event handlers *)

InitClient ==
    /\ \E doc \in Documents :
        /\ fig = fig_payload(doc)
        /\ explicitHeight = has_explicit_height(doc)
        /\ defaultHeight = default_height(doc)
        /\ frameHeight = default_height(doc)
    /\ gd = [plotted |-> FALSE, data |-> <<>>,
             layout |-> Layout(NoInt, NoInt, <<>>, <<>>, NoMeta)]
    /\ linked = NotInstalled
    /\ innerWidth = 1000
    /\ mounted = FALSE
    /\ event = NoEvent
    /\ plotlyCalls = <<>>

\* lines 269-279: the script body
Mount ==
    /\ ~mounted
    /\ render(innerWidth)
    /\ linked' = setupLinkedInteraction(fig')
    /\ mounted' = TRUE
    /\ event' = Event("mount")
    /\ plotlyCalls' = <<NormalizeCall, ReactCall>>
    /\ UNCHANGED <<explicitHeight, defaultHeight, innerWidth>>

\* the plotly_click listener, lines 208-250
Click ==
    /\ mounted
    /\ linked.installed
    /\ \E curve \in 0..(Len(gd.data) - 1), label \in ClickLabels,
          throws \in IF targetExists(gd, linked) THEN {FALSE} ELSE BOOLEAN :
        LET after == handleClick(gd, linked, curve, label, throws) IN
        /\ gd' = [gd EXCEPT !.data = after.data, !.layout = after.layout]
        /\ fig' = [fig EXCEPT !.data = after.data, !.layout = after.layout]
        /\ plotlyCalls' = after.calls
        /\ event' = [kind |-> "click", curve |-> curve, label |-> label,
                     season |-> after.season, payload |-> after.payload]
    /\ UNCHANGED <<explicitHeight, defaultHeight, linked, innerWidth, frameHeight, mounted>>

\* the ResizeObserver callback, lines 271-274
ContainerResize ==
    /\ mounted
    /\ \E w \in WidthsFor(fig) :
        /\ innerWidth' = w
        /\ render(w)
    /\ event' = Event("container")
    /\ plotlyCalls' = <<NormalizeCall, ReactCall, ResizeCall>>
    /\ UNCHANGED <<explicitHeight, defaultHeight, linked, mounted>>

\* the window resize listener, lines 276-279
WindowResize ==
    /\ mounted
    /\ \E w \in WidthsFor(fig) :
        /\ innerWidth' = w
        /\ render(w)
    /\ event' = Event("resize")
    /\ plotlyCalls' = <<NormalizeCall, ReactCall, ResizeCall>>
    /\ UNCHANGED <<explicitHeight, defaultHeight, linked, mounted>>

\* Plotly's update of every trace from a button's trace-data patch: trace i
\* takes element i (modulo the length) of an array value
patchedByButton(data, patch) ==
    [i \in 1..Len(data) |->
        [field \in DOMAIN data[i] |->
            IF field \in TRACE_KEYS /\ patch.isObject /\ patch.keys[field] # Undefined
            THEN LET v == patch.keys[field] IN
                 IF IsArray(v) /\ Len(v.e) > 0 THEN v.e[((i - 1) % Len(v.e)) + 1] ELSE v
            ELSE data[i][field]]]

\* The user picks button b of dropdown m: Plotly records it as the menu's
\* active button in gd.layout and applies the button's patch.
MenuSelect ==
    /\ mounted
    /\ \E m \in 1..Len(gd.layout.updatemenus) :
        \E b \in 1..Len(gd.layout.updatemenus[m].buttons) :
            LET btn == gd.layout.updatemenus[m].buttons[b]
                data1 == IF Len(btn.args) > 0 THEN patchedByButton(gd.data, btn.args[1])
                         ELSE gd.data
                layout1 == [gd.layout EXCEPT !.updatemenus[m].active = JsInt(b - 1)]
            IN  /\ gd' = [gd EXCEPT !.data = data1, !.layout = layout1]
                /\ fig' = [fig EXCEPT !.data = data1, !.layout = layout1]
    /\ event' = Event("menu")
    /\ plotlyCalls' = <<>>
    /\ UNCHANGED <<explicitHeight, defaultHeight, linked, innerWidth, frameHeight, mounted>>

ClientAtRest ==
    /\ fig = [data |-> <<>>, layout |-> Layout(NoInt, NoInt, <<>>, <<>>, NoMeta)]
    /\ explicitHeight = FALSE
    /\ defaultHeight = 420
    /\ frameHeight = 420
    /\ gd = [plotted |-> FALSE, data |-> <<>>,
             layout |-> Layout(NoInt, NoInt, <<>>, <<>>, NoMeta)]
    /\ linked = NotInstalled
    /\ innerWidth = 1000
    /\ mounted = FALSE
    /\ event = NoEvent
    /\ plotlyCalls = <<>>

--------------------------------------------------------------------------
(* The specifications *)

NextRender ==
    \/ (CallIpl /\ UNCHANGED <<normVars, clientVars>>)
    \/ (CallBasic /\ UNCHANGED <<normVars, clientVars>>)
    \/ (CallAgno /\ UNCHANGED <<normVars, clientVars>>)
    \/ (CheckDeps /\ UNCHANGED <<normVars, clientVars>>)
    \/ (Fetch /\ UNCHANGED <<normVars, clientVars>>)
    \/ (Exec /\ UNCHANGED <<normVars, clientVars>>)
    \/ (Serialize /\ UNCHANGED <<normVars, clientVars>>)
    \/ (Embed /\ UNCHANGED <<normVars, clientVars>>)
    \/ (Store /\ UNCHANGED <<normVars, clientVars>>)

NextNorm ==
    \/ (Normalize /\ UNCHANGED <<renderVars, clientVars>>)
    \/ (Renormalize /\ UNCHANGED <<renderVars, clientVars>>)

NextClient ==
    \/ (Mount /\ UNCHANGED <<normVars, renderVars>>)
    \/ (Click /\ UNCHANGED <<normVars, renderVars>>)
    \/ (ContainerResize /\ UNCHANGED <<normVars, renderVars>>)
    \/ (WindowResize /\ UNCHANGED <<normVars, renderVars>>)
    \/ (MenuSelect /\ UNCHANGED <<normVars, renderVars>>)

\* the variables of the specifications that are not running
RenderAtRest == RenderIdle /\ rawQuery = <<>> /\ depsOk = TRUE
NormAtRest ==
    /\ value = Undefined /\ traceCount = 1 /\ normResult = Undefined /\ normDone = FALSE
    /\ normAgain = Undefined /\ normPasses = 0

InitN == InitNorm /\ RenderAtRest /\ ClientAtRest
InitR == InitRender /\ NormAtRest /\ ClientAtRest
InitC == InitClient /\ NormAtRest /\ RenderAtRest

SpecNorm == InitN /\ [][NextNorm]_vars
SpecRender == InitR /\ [][NextRender]_vars
SpecClient == InitC /\ [][NextClient]_vars

--------------------------------------------------------------------------
(* Properties of the render call (SpecRender) *)

\* the call of render_plotly_chart_py has ended
CoreCallEnded == pc = "idle" /\ Len(stages) > 0

Last(sq) == sq[Len(sq)]

\* C1: every call of render_plotly_chart_py ends by returning a handle
\* {_pylogue_html_id, message} or a plain string; no exception raised in a
\* stage leaves the call.
C1_NoExceptionEscapes ==
    CoreCallEnded => result.kind \in {"handle", "string"}

\* C2: the artifact store gains an entry exactly when the call returns a
\* handle; when the snippet raises, binds no figure, or the figure fails to
\* serialize, the call returns a diagnostic string and store_html was not
\* called; a call that returns a handle called store_html exactly once.
C2_StoreIffHandle ==
    CoreCallEnded =>
        /\ (Len(store) > storeAtCall) <=> (result.kind = "handle")
        /\ Last(stages) \in {"exec", "serialize"} =>
                result.kind = "string" /\ storeCalls = 0 /\ Len(store) = storeAtCall
        /\ result.kind = "handle" => storeCalls = 1 /\ Len(store) = storeAtCall + 1

\* C3: the data-fetch capability is only ever invoked with a query that
\* passed the read-only check, and a query that does not begin with SELECT
\* after normalization never reaches it.
C3_FetchOnlyReadOnly ==
    /\ \A i \in 1..Len(fetched) : fetched[i] \in checked
    /\ ~IsSelect(normalize_sql_query(rawQuery)) => fetched = <<>>

Rank(st) ==
    CASE st = "deps" -> 0
      [] st = "fetch" -> 1
      [] st = "exec" -> 2
      [] st = "serialize" -> 3
      [] st = "embed" -> 4
      [] st = "store" -> 5

\* C4: within one call the data-fetch capability is invoked at most once and
\* the snippet runs at most once, in the order fetch, execute, serialize,
\* store; with a null query or a null runner the capability is not invoked
\* and the snippet runs with neither df nor data bound.
C4_SingleAttemptInOrder ==
    /\ \A i, j \in 1..Len(stages) : i < j => Rank(stages[i]) < Rank(stages[j])
    /\ Len(fetched) <= 1
    /\ Len(fetched) = Cardinality({i \in 1..Len(stages) : stages[i] = "fetch"})
    /\ (Len(stages) > 0 /\ ~(hasRunner /\ hasQuery)) =>
            /\ fetched = <<>>
            /\ "df" \notin scope /\ "data" \notin scope

\* a call that fetched, ran the snippet, serialized and stored
C4_Witness ==
    /\ result.kind = "handle"
    /\ stages = <<"deps", "fetch", "exec", "serialize", "embed", "store">>
    /\ Len(fetched) = 1

--------------------------------------------------------------------------
(* Properties of normalizePerTraceValue (SpecNorm) *)

\* a non-empty array none of whose elements is an array
FlatNonEmpty(v) ==
    IsArray(v) /\ Len(v.e) > 0 /\ \A i \in 1..Len(v.e) : ~IsArray(v.e[i])

\* C9: for traceCount = 1 and every flat, non-empty sequence v,
\* normalizePerTraceValue(v, 1) is [v].
C9_SingleTraceFlatWrapped ==
    (normDone /\ traceCount = 1 /\ FlatNonEmpty(value)) => normResult = Arr(<<value>>)

C9_Witness ==
    normDone /\ traceCount = 1 /\ FlatNonEmpty(value) /\ Len(value.e) = 2

\* an array of length n whose elements are arrays or null
PerTraceInput(v, n) ==
    IsArray(v) /\ Len(v.e) = n /\ \A i \in 1..n : v.e[i].k \in {"array", "null"}

\* C10: for every traceCount N > 1, a sequence of length N whose elements
\* are all sequences or null is returned unchanged.
C10_PerTraceUnchanged ==
    (normDone /\ traceCount > 1 /\ PerTraceInput(value, traceCount)) => normResult = value

C10_Witness ==
    /\ normDone /\ traceCount > 1 /\ PerTraceInput(value, traceCount)
    /\ \E i, j \in 1..Len(value.e) : value.e[i].k = "null" /\ value.e[j].k = "array"

\* an array whose elements are numbers and strings (the empty array included)
FlatScalars(v) == IsArray(v) /\ \A i \in 1..Len(v.e) : v.e[i].k \in {"num", "str"}

\* C11: for every traceCount N > 1, a flat sequence of scalars of any
\* length M, M = N included, is returned wrapped once as [value].
C11_FlatScalarsWrapped ==
    (normDone /\ traceCount > 1 /\ FlatScalars(value)) => normResult = Arr(<<value>>)

\* a flat sequence of exactly N numbers was wrapped
C11_Witness ==
    /\ normDone /\ traceCount > 1 /\ FlatScalars(value)
    /\ Len(value.e) = traceCount
    /\ normResult = Arr(<<value>>)

\* C13: normalizePerTraceValue is idempotent: a second and any later pass
\* over a slot leaves the value of the first pass, for every value and
\* every traceCount n >= 1.
C13_Idempotent ==
    normPasses >= 2 => normAgain = normResult

\* C19 (as amended): for traceCount = 1 the empty sequence becomes [[]], a
\* sequence whose first element is a sequence is returned unchanged, and
\* every other sequence is wrapped exactly once as [value].
C19_SingleTraceByFirstElement ==
    (normDone /\ traceCount = 1 /\ IsArray(value)) =>
        normResult = IF Len(value.e) = 0 THEN Arr(<<Arr(<<>>)>>)
                     ELSE IF IsArray(value.e[1]) THEN value
                     ELSE Arr(<<value>>)

\* every element of the array is an array
SequenceOfSequences(v) == \A i \in 1..Len(v.e) : IsArray(v.e[i])

\* C19 (as claimed): for traceCount = 1 a value that is already a
\* sequence of sequences, or is empty, is returned unchanged; every other
\* sequence is wrapped exactly once as [value].
C19_SingleTraceAsIsOrWrapped ==
    (normDone /\ traceCount = 1 /\ IsArray(value)) =>
        normResult = IF SequenceOfSequences(value) THEN value ELSE Arr(<<value>>)

\* a sequence that starts with a sequence and goes on with a number came
\* back unchanged
C19_Witness ==
    /\ normDone /\ traceCount = 1 /\ IsArray(value) /\ Len(value.e) = 2
    /\ IsArray(value.e[1]) /\ ~IsArray(value.e[2])
    /\ normResult = value

\* C20 (as amended): for traceCount N > 1 a sequence is returned unchanged
\* if and only if its length is N and every element is a sequence or null,
\* or its first element is a sequence; every other sequence is wrapped once
\* as [value].
C20_UnchangedIffPerTraceOrNested ==
    (normDone /\ traceCount > 1 /\ IsArray(value)) =>
        /\ normResult \in {value, Arr(<<value>>)}
        /\ (normResult = value) <=>
                (PerTraceInput(value, traceCount)
                    \/ (Len(value.e) > 0 /\ IsArray(value.e[1])))

\* C20 (as claimed): for traceCount N > 1 a sequence is returned unchanged
\* if and only if its length is N and every element is a sequence or null;
\* every other sequence is wrapped once as [value].
C20_UnchangedIffPerTrace ==
    (normDone /\ traceCount > 1 /\ IsArray(value)) =>
        /\ normResult \in {value, Arr(<<value>>)}
        /\ (normResult = value) <=> PerTraceInput(value, traceCount)

\* a nested sequence whose length is not N came back unchanged
C20_Witness ==
    /\ normDone /\ traceCount > 1 /\ IsArray(value)
    /\ Len(value.e) # traceCount /\ Len(value.e) > 0 /\ IsArray(value.e[1])
    /\ normResult = value

--------------------------------------------------------------------------
(* Properties of the linked-interaction engine (SpecClient) *)

\* the Plotly.restyle calls of the handler that ran last
RestyleCalls == SelectSeq(plotlyCalls, LAMBDA c : c.op = "restyle")

\* the handler that ran last answered a click on the source trace
SourceClick(ev) == ev.kind = "click" /\ ev.curve = linked.sourceTrace

HasTraceKeys(p) == p.kind = "object" /\ \E key \in TRACE_KEYS : p.keys[key] # Undefined

\* What a click on the source trace with category label `label` must do when
\* `expected` is the lookup value it has to use: it restyles exactly when
\* that value is an object with a trace key, the payload it applies is then
\* that value, and with neither key in the lookup it calls nothing and
\* changes nothing.
ClickUses(expected, season, label) ==
    /\ (RestyleCalls' # <<>>) <=> HasTraceKeys(expected)
    /\ HasTraceKeys(expected) => event'.payload = expected
    /\ (Get(linked.lookup, season \o "||" \o label) = NoPayload
            /\ Get(linked.lookup, label) = NoPayload)
        => (plotlyCalls' = <<>> /\ gd' = gd /\ fig' = fig)

\* C5 (as amended): on a click on the source trace with category label L
\* while the active season is S, the payload applied is lookup[S||L] whenever
\* that key holds a truthy value (a JSON object), otherwise lookup[L]; a
\* composite key that holds null falls through to lookup[L]; with neither
\* key present the click makes no restyle, no relayout and no state change.
C5_CompositeKeyWhenTruthy ==
    [][SourceClick(event') =>
        LET S == activeSeason(gd, linked)
            L == event'.label
            comp == Get(linked.lookup, S \o "||" \o L)
        IN  ClickUses(IF comp.kind \in {"object", "num"} THEN comp
                      ELSE Get(linked.lookup, L), S, L)]_vars

\* C5 (as claimed): the payload applied is lookup[S||L] whenever the
\* composite key is present, otherwise lookup[L].
C5_CompositeKeyWhenPresent ==
    [][SourceClick(event') =>
        LET S == activeSeason(gd, linked)
            L == event'.label
            comp == Get(linked.lookup, S \o "||" \o L)
        IN  ClickUses(IF comp # NoPayload THEN comp
                      ELSE Get(linked.lookup, L), S, L)]_vars

\* a click resolved through the composite key although the bare key is there
C5_Witness ==
    /\ SourceClick(event)
    /\ event.season = "2020" /\ event.label = "MI"
    /\ event.payload = PayloadA
    /\ Get(linked.lookup, "MI") = PayloadC
    /\ RestyleCalls # <<>>

SingleNested(v) == v.k = "array" /\ Len(v.e) = 1 /\ v.e[1].k = "array"

\* C6: for each key of {x, y, text, customdata} present in the resolved
\* payload the restyle patch for the target trace holds that value wrapped as
\* a single-element sequence, a single-nested x, y or text being unwrapped
\* first and customdata being wrapped as it is; a key the payload lacks is
\* not in the patch.  Payload y=[10,20] and y=[[10,20]] both give y=[[10,20]].
C6_RestylePatchShape ==
    (SourceClick(event) /\ HasTraceKeys(event.payload)) =>
        /\ Len(RestyleCalls) = 1
        /\ RestyleCalls[1].traces = <<linked.targetTrace>>
        /\ \A key \in TRACE_KEYS :
            LET p == event.payload.keys[key]
                u == RestyleCalls[1].update[key]
            IN  IF p = Undefined THEN u = Undefined
                ELSE IF key # "customdata" /\ SingleNested(p) THEN u = Arr(<<p.e[1]>>)
                ELSE u = Arr(<<p>>)
        /\ event.payload.keys.y \in {Flat1020, Arr(<<Flat1020>>)} =>
                RestyleCalls[1].update.y = Arr(<<Flat1020>>)

\* a click whose payload holds a single-nested y and a nested customdata
C6_Witness ==
    /\ SourceClick(event)
    /\ event.payload = PayloadB
    /\ Len(RestyleCalls) = 1
    /\ RestyleCalls[1].update.y = Arr(<<Flat1020>>)

\* what the linked interaction shows: the traces' data, the annotation
\* texts, the chart title and the axis types
RenderState(g) ==
    [data |-> g.data, annotations |-> g.layout.annotations, title |-> g.layout.title,
     axisType |-> g.layout.axisType]

\* C7: in any interleaving of clicks and resizes the linked-interaction
\* state changes only on a click on the configured source trace: a click on
\* another trace changes nothing, and a container or window resize, which
\* re-renders from fig, keeps the data and title a click applied and applies
\* none.  (Picking a dropdown button is Plotly's own update, not the engine's.)
C7_OnlySourceClickChangesState ==
    [][/\ (event'.kind = "click" /\ event'.curve # linked.sourceTrace) =>
            (gd' = gd /\ fig' = fig /\ plotlyCalls' = <<>>)
       /\ event'.kind \in {"resize", "container"} =>
            (RenderState(gd') = RenderState(gd) /\ RestyleCalls' = <<>>)]_vars

\* a resize handled after a click applied PayloadA to the target trace
C7_Witness ==
    /\ event.kind \in {"resize", "container"}
    /\ linked.installed
    /\ linked.targetTrace >= 0 /\ linked.targetTrace < Len(gd.data)
    /\ gd.data[linked.targetTrace + 1].y = Flat1020
    /\ "MI 2020" \in {gd.layout.annotations[i] : i \in 1..Len(gd.layout.annotations)}
                        \cup {gd.layout.title}

ValidIndex(i) == i >= 0 /\ i < Len(gd.data)

\* C8: for every linked-interaction spec a snippet can supply, the source
\* index the engine listens on and the target index of every restyle it
\* issues are valid indices into data.
C8_TraceIndicesValid ==
    (mounted /\ linked.installed) =>
        /\ ValidIndex(linked.sourceTrace)
        /\ \A c \in 1..Len(RestyleCalls) :
            \A t \in 1..Len(RestyleCalls[c].traces) : ValidIndex(RestyleCalls[c].traces[t])


--------------------------------------------------------------------------
(* Properties of the responsive sizing (SpecClient) *)

\* the handler that ran last rendered: the script body or a resize listener
Rendered(ev) == ev.kind \in {"mount", "container", "resize"}

\* C15 (as amended): when layout.height is an explicit number h, the height
\* computed at every render (the initial mount and every resize) is h with
\* its fraction dropped, int(h), for every viewport width; it equals h when
\* h is an integer.
C15_ExplicitHeightTruncated ==
    [][(explicitHeight /\ Rendered(event')) =>
            fig'.layout.height = JsInt(fig.layout.height.n)]_vars

\* C15 (as claimed): when layout.height is an explicit number h, the height
\* computed at every render equals h for every viewport width.
C15_ExplicitHeightKept ==
    [][(explicitHeight /\ Rendered(event')) =>
            fig'.layout.height = fig.layout.height]_vars

\* a resize to the widest viewport of a chart whose height was given as 300
C15_Witness ==
    /\ explicitHeight /\ mounted /\ event.kind \in {"container", "resize"}
    /\ innerWidth = 1500
    /\ fig.layout.height = JsInt(300)

Clamp(lo, x, hi) == IF x < lo THEN lo ELSE IF x > hi THEN hi ELSE x

\* round(0.6 * w) for a natural number w: 0.6 * w is never half-way
RoundOf06(w) == IF (6 * w) % 10 >= 5 THEN ((6 * w) \div 10) + 1 ELSE (6 * w) \div 10

\* clamp(280, 560, round(0.6 * clamp(280, w, 1400)))
SpecHeight(w) == Clamp(280, RoundOf06(Clamp(280, w, 1400)), 560)

\* C16 (as amended): with no explicit height, for every viewport width
\* w > 0 the height computed on each render equals
\* clamp(280, 560, round(0.6 * clamp(280, w, 1400))); for w = 0 the width
\* 1024 stands in, which gives 560.  The height always lies in [280, 560]
\* and is non-decreasing in w over the widths w > 0.
C16_HeightFormulaPositiveWidths ==
    (mounted /\ ~explicitHeight) =>
        /\ fig.layout.height = JsInt(SpecHeight(IF innerWidth = 0 THEN 1024 ELSE innerWidth))
        /\ fig.layout.height.n >= 280 /\ fig.layout.height.n <= 560
        /\ \A w1, w2 \in Widths \ {0} : w1 <= w2 => mobileHeight(w1) <= mobileHeight(w2)

\* C16 (as claimed): with no explicit height, for every viewport width
\* w >= 0, 0 included, the height computed on each render equals
\* clamp(280, 560, round(0.6 * clamp(280, w, 1400))); it lies in [280, 560]
\* and is non-decreasing in w.
C16_HeightFormulaAllWidths ==
    (mounted /\ ~explicitHeight) =>
        /\ fig.layout.height = JsInt(SpecHeight(innerWidth))
        /\ fig.layout.height.n >= 280 /\ fig.layout.height.n <= 560
        /\ \A w1, w2 \in Widths : w1 <= w2 => mobileHeight(w1) <= mobileHeight(w2)

\* a resize to a width between the clamps, where the rounding shows
C16_Witness ==
    /\ mounted /\ ~explicitHeight /\ event.kind \in {"container", "resize"}
    /\ innerWidth = 701
    /\ fig.layout.height = JsInt(421)

\* C17: after every render (initial mount, container resize, window resize)
\* the height of the embedding frame equals the layout height just
\* computed; the two differ in no state reached after a render.
C17_FrameHeightInSync ==
    mounted => fig.layout.height = JsInt(frameHeight)

\* a resize that moved the frame away from the height of its markup
C17_Witness ==
    /\ mounted /\ event.kind \in {"container", "resize"}
    /\ frameHeight = 280 /\ defaultHeight = 420
    /\ fig.layout.height = JsInt(280)


--------------------------------------------------------------------------
(* Properties of the dropdown normalization and of the season lookup *)
(* (SpecClient) *)

\* no key annotations[i].text is left in the trace-data patch or in the
\* layout patch of the button
Stripped(btn) ==
    \A i \in 1..Len(btn.args) : (i <= 2 /\ btn.args[i].isObject) => btn.args[i].ann = {}

AllButtons(f) ==
    UNION {{f.layout.updatemenus[m].buttons[b] : b \in 1..Len(f.layout.updatemenus[m].buttons)} :
            m \in 1..Len(f.layout.updatemenus)}

\* C12 (as amended): after the normalization pass, for every button whose
\* method is "update" (in any letter case) and every index i, no key
\* annotations[<i>].text is present in the button's trace-data patch or in
\* its layout patch; buttons of other methods are left as they are.
C12_UpdateButtonsStripped ==
    mounted =>
        \A btn \in AllButtons(fig) :
            btn.method \in {"update", "Update"} => Stripped(btn)

\* C12 (as claimed): after the normalization pass, for every button of
\* every menu and every index i, no key annotations[<i>].text is present in
\* the trace-data patch or the layout patch.
C12_EveryButtonStripped ==
    mounted => \A btn \in AllButtons(fig) : Stripped(btn)

\* an update button whose two patches carried fragile keys went through
\* the pass
C12_Witness ==
    /\ mounted
    /\ \E btn \in AllButtons(fig) :
        /\ btn.method = "Update" /\ Len(btn.args) = 2
        /\ btn.args[1].isObject /\ btn.args[1].keys.text # Undefined
        /\ Stripped(btn)

\* the calls of the handler that ran last include the normalization pass
RanNormalize == \E c \in 1..Len(plotlyCalls) : plotlyCalls[c] = NormalizeCall

\* C14: the normalization pass runs exactly once per document, before the
\* first render, and is not run again on a later event (click, container
\* resize, window resize).
C14_NormalizedOnceBeforeFirstRender ==
    /\ event.kind = "mount" => plotlyCalls = <<NormalizeCall, ReactCall>>
    /\ event.kind \in {"click", "container", "resize"} => ~RanNormalize

\* the season the claim names for the chart in the graph div
SeasonOfClaim ==
    LET meta == fig.layout.meta
        i == IF meta.season_menu_index.isInt THEN meta.season_menu_index.n ELSE 0
        menus == gd.layout.updatemenus
    IN  IF (i + 1) \notin DOMAIN menus THEN meta.default_season
        ELSE IF ~menus[i + 1].hasButtons THEN meta.default_season
        ELSE LET a == IF menus[i + 1].active.isInt THEN menus[i + 1].active.n ELSE 0
                 bs == menus[i + 1].buttons
             IN  IF (a + 1) \notin DOMAIN bs THEN meta.default_season
                 ELSE IF ~bs[a + 1].hasLabel THEN meta.default_season
                 ELSE bs[a + 1].label

\* C18: resolving the active season never errors: it returns the label of
\* the active button of layout.updatemenus[season_menu_index], and
\* default_season whenever that menu, its buttons, the active button or its
\* label is absent (season_menu_index defaulting to 0; an active index
\* with no button, such as -1, yields default_season).
C18_ActiveSeasonOrDefault ==
    SourceClick(event) => event.season = SeasonOfClaim

\* a click after the second button of the season dropdown was picked
C18_Witness ==
    /\ SourceClick(event)
    /\ event.season = "2020"
    /\ fig.layout.meta.default_season = "2021"
    /\ Len(gd.layout.updatemenus) = 1
    /\ gd.layout.updatemenus[1].active = JsInt(1)


--------------------------------------------------------------------------
(* Properties of the click handler's patches and of render's layout *)
(* (SpecClient) *)

\* C23: if the resolved payload contains none of the keys x, y, text,
\* customdata (a payload carrying only a title, say), the click is ignored
\* entirely: no restyle, no axis relayout, no annotation or title change,
\* and the RenderState is unchanged.
C23_EmptyUpdateIgnored ==
    [][(SourceClick(event') /\ event'.payload.kind = "object"
            /\ ~HasTraceKeys(event'.payload)) =>
        (plotlyCalls' = <<>> /\ gd' = gd /\ fig' = fig)]_vars

\* a click that resolved to the payload holding only a title
C23_Witness ==
    /\ SourceClick(event)
    /\ event.payload = PayloadD
    /\ plotlyCalls = <<>>
    /\ gd.layout.title = ""
    /\ "MI all" \notin {gd.layout.annotations[i] : i \in 1..Len(gd.layout.annotations)}

\* C24: when layout.height is an explicit number, the width and the
\* autosize of the layout handed to Plotly on every render (the first and
\* those on resize) are those of the serialized document; width is cleared
\* and autosize forced only when no explicit height is set.
C24_ExplicitHeightKeepsWidth ==
    [][(explicitHeight /\ Rendered(event')) =>
        /\ gd'.layout.width = fig.layout.width
        /\ gd'.layout.autosize = fig.layout.autosize]_vars


AxisTypeKeys == {"yaxis.type", "yaxis2.type"}

\* the relayout calls of the handler that ran last that patch a title
TitleCalls ==
    SelectSeq(plotlyCalls, LAMBDA c : c.op = "relayout" /\ c.key \notin AxisTypeKeys)

\* the relayout calls of the handler that ran last that set an axis type
AxisCalls ==
    SelectSeq(plotlyCalls, LAMBDA c : c.op = "relayout" /\ c.key \in AxisTypeKeys)

\* y values that are textual, in the flat or in the single-nested shape
TextualSeries(y) ==
    /\ IsArray(y) /\ Len(y.e) > 0
    /\ \/ y.e[1].k = "str"
       \/ (Len(y.e) = 1 /\ IsArray(y.e[1]) /\ Len(y.e[1].e) > 0 /\ y.e[1].e[1].k = "str")

\* the layout key of the y axis the target trace is drawn on
TargetAxis ==
    IF ValidIndex(linked.targetTrace) /\ gd.data[linked.targetTrace + 1].yaxis = "y2"
    THEN "yaxis2" ELSE "yaxis"

\* C21: on a source click whose payload's y values are textual (flat or
\* single-nested) while the target's y axis is numeric, the relayout that
\* sets the axis type to category is issued before the restyle, and the
\* restyle addresses the target trace only; when the switch is not needed
\* (non-textual y, or an axis that is already categorical) no axis-type
\* relayout is issued.
C21_AxisSwitchBeforeRestyle ==
    [][(SourceClick(event') /\ HasTraceKeys(event'.payload)) =>
        LET needed == /\ TextualSeries(event'.payload.keys.y)
                      /\ gd.layout.axisType[TargetAxis] # "category"
        IN  /\ needed =>
                /\ Len(plotlyCalls') >= 2
                /\ plotlyCalls'[1] = RelayoutCall(TargetAxis \o ".type", "category")
                /\ plotlyCalls'[2].op = "restyle"
            /\ ~needed => AxisCalls' = <<>>
            /\ \A c \in 1..Len(RestyleCalls') :
                    RestyleCalls'[c].traces = <<linked.targetTrace>>]_vars

\* the title the payload carries goes to this annotation, or to the chart
\* title when the chart has no such annotation
TitlePatchAt(idx, title) ==
    IF idx >= 0 /\ idx < Len(gd.layout.annotations)
    THEN RelayoutCall("annotations[" \o ToString(idx) \o "].text", title)
    ELSE RelayoutCall("title", title)

\* a source click that reached the title step with a title to apply
TitledClick(ev) ==
    /\ SourceClick(ev) /\ HasTraceKeys(ev.payload) /\ ev.payload.title # ""
    /\ ValidIndex(linked.targetTrace)

=============================================================================
